---- MODULE Spec2Model ----
(***************************************************************************)
(* A model of two commands of eas-cli:                                     *)
(*   - the build command (commands/build/index.ts, kept as                 *)
(*     src/unnamed/part_000): Build.run and its duplicate-build guard      *)
(*     ensureNoPendingBuildsExistAsync;                                    *)
(*   - the iOS submit command (submit/ios/IosSubmitCommand.ts):            *)
(*     resolveSubmissionOptionsAsync and the resolvers it runs.            *)
(* One behaviour is one invocation of one command.  The two Promise.all    *)
(* fan-outs of the guard settle one promise per step, in any order; the    *)
(* rest of each command is sequential, one step per call it awaits.        *)
(***************************************************************************)
EXTENDS Integers, Sequences, FiniteSets, TLC

VARIABLES
  cmd,        \* which command this invocation runs: "build" or "submit"
  pc,         \* position in the command
  flags,      \* build: the parsed command-line flags
  user,       \* build: the Actor returned by ensureLoggedInAsync
  world,      \* build: what the collaborators answer (service, host, project dir)
  platform,   \* build: the RequestedPlatform local of Build.run
  maybePendingBuilds, \* build: the promises of the getPendingBuildIdAsync fan-out
  results,    \* build: the promises of the byIdAsync fan-out
  accountHasPendingBuilds, \* build: the boolean the guard returned, "true" or "false"
  exitCode,   \* process.exitCode
  ctx,        \* submit: the SubmissionContext (nonInteractive, profile, projectId)
  envPassword, \* submit: EXPO_APPLE_APP_SPECIFIC_PASSWORD
  archiveSource,     \* submit: Result of resolveArchiveSource
  credentialsSource, \* submit: the object resolveCredentialSubmissionOptionsAsync returned
  ascAppIdentifier,  \* submit: Result of resolveAscAppIdentifierAsync
  options,    \* submit: the IosSubmissionOptions bundle
  calls,      \* every call made to a collaborator, in order
  logs        \* every line given to Log, in order

vars == <<cmd, pc, flags, user, world, platform, maybePendingBuilds, results,
          accountHasPendingBuilds, exitCode, ctx, envPassword, archiveSource,
          credentialsSource, ascAppIdentifier, options, calls, logs>>

buildVars == <<flags, user, world, platform, maybePendingBuilds, results,
               accountHasPendingBuilds>>

submitVars == <<ctx, envPassword, archiveSource, credentialsSource,
                ascAppIdentifier, options>>

-----------------------------------------------------------------------------
(* Values *)

\* the value of an absent flag or profile field
Undefined == "undefined"

\* JavaScript null, as a record so that it compares with Results and bundles
Null == [null |-> TRUE]

\* RequestedPlatform and AppPlatform
RequestedPlatform == {"android", "ios", "all"}

AppPlatform == {"ANDROID", "IOS"}

\* JavaScript truthiness of an optional string
Truthy(s) == s # Undefined /\ s # ""

\* a collaborator call, as recorded in calls
Call(op, arg) == [op |-> op, arg |-> arg]

\* the arguments of the calls of one collaborator, in order
RECURSIVE ArgsOf(_, _)
ArgsOf(op, cs) ==
  IF cs = <<>> THEN <<>>
  ELSE IF Head(cs).op = op THEN <<Head(cs).arg>> \o ArgsOf(op, Tail(cs))
       ELSE ArgsOf(op, Tail(cs))

Called(op) == \E i \in 1..Len(calls) : calls[i].op = op

\* a promise of a fan-out
Inflight == [st |-> "inflight", v |-> ""]

Fulfilled(v) == [st |-> "fulfilled", v |-> v]

Rejected == [st |-> "rejected", v |-> ""]

AllFulfilled(ps) == \A i \in 1..Len(ps) : ps[i].st = "fulfilled"

AnyRejected(ps) == \E i \in 1..Len(ps) : ps[i].st = "rejected"

\* a filter that keeps the first pending build only
FilterNonNull_FirstOnly(ps) ==
  LET kept == SelectSeq(ps, LAMBDA p : p.v # "null") IN
  IF kept = <<>> THEN <<>> ELSE <<kept[1].v>>

\* Array.prototype.filter(i => i !== null) over the fulfilled values
RECURSIVE FilterNonNull(_)
FilterNonNull(ps) ==
  IF ps = <<>> THEN <<>>
  ELSE IF Head(ps).v # "null" THEN <<Head(ps).v>> \o FilterNonNull(Tail(ps))
       ELSE FilterNonNull(Tail(ps))

-----------------------------------------------------------------------------
(* The build command *)

\* an expansion of All in the other order
toAppPlatforms_Reversed(requestedPlatform) ==
  IF requestedPlatform = "all" THEN <<"IOS", "ANDROID">>
  ELSE IF requestedPlatform = "android" THEN <<"ANDROID">>
  ELSE <<"IOS">>

\* an expansion that ignores the selector
toAppPlatforms_Both(requestedPlatform) == <<"ANDROID", "IOS">>

toAppPlatforms(requestedPlatform) ==
  IF requestedPlatform = "all" THEN <<"ANDROID", "IOS">>
  ELSE IF requestedPlatform = "android" THEN <<"ANDROID">>
  ELSE <<"IOS">>

\* a verification without the host check
verifyOptionsForLocalBuilds_NoHostCheck(p) == IF p = "all" THEN FALSE ELSE TRUE

verifyOptionsForLocalBuilds(p) ==
  IF p = "all" THEN FALSE
  ELSE IF world.processPlatform # "darwin" /\ p = "ios" THEN FALSE
  ELSE TRUE

\* the line verifyOptionsForLocalBuilds gives to Log.error, when it refuses
LocalBuildError(p) ==
  IF p = "all" THEN <<"multiple platforms not supported with --local">>
  ELSE <<"macOS is required to build apps for iOS">>

\* the finally block of Build.run runs on every way out of the try block
Leave(how, cs) ==
  /\ pc' = how
  /\ calls' = Append(cs, Call("flushAnalyticsAsync", ""))

\* lines 67-77: parse flags, log in, settle the platform
Run_ResolvePlatform ==
  /\ cmd = "build" /\ pc = "run"
  /\ IF flags.platform = Undefined /\ flags.nonInteractive
     THEN /\ Leave("threw", calls)
          /\ UNCHANGED platform
     ELSE IF flags.platform # Undefined
     THEN /\ platform' = flags.platform
          /\ pc' = "run:easEnabled"
          /\ UNCHANGED calls
     ELSE \E choice \in RequestedPlatform :
          /\ platform' = choice
          /\ pc' = "run:easEnabled"
          /\ calls' = Append(calls, Call("promptAsync", "platform"))
  /\ UNCHANGED <<cmd, flags, user, world, maybePendingBuilds, results,
                 accountHasPendingBuilds, exitCode, logs>>
  /\ UNCHANGED submitVars

\* lines 79-92: the service must be enabled for the project, unless --local;
\* a local build must be for one platform this host can build
Run_VerifyOptions ==
  /\ cmd = "build" /\ pc = "run:easEnabled"
  /\ IF ~flags.local /\ ~world.easEnabled
     THEN /\ logs' = Append(logs, [level |-> "warn", msg |-> <<"EAS unavailable">>])
          /\ exitCode' = 1
          /\ Leave("returned", Append(calls, Call("isEasEnabledForProjectAsync", "")))
     ELSE IF flags.local /\ ~verifyOptionsForLocalBuilds(platform)
     THEN /\ logs' = Append(logs, [level |-> "error", msg |-> LocalBuildError(platform)])
          /\ exitCode' = 1
          /\ Leave("returned", calls)
     ELSE /\ pc' = "guard"
          /\ calls' = IF flags.local THEN calls
                      ELSE Append(calls, Call("isEasEnabledForProjectAsync", ""))
          /\ UNCHANGED <<logs, exitCode>>
  /\ UNCHANGED <<cmd, flags, user, world, platform, maybePendingBuilds, results,
                 accountHasPendingBuilds>>
  /\ UNCHANGED submitVars

\* the guard without its admin bypass
ensureNoPendingBuildsExistAsync_NoBypass ==
  /\ cmd = "build" /\ pc = "guard"
  /\ LET appPlatforms == toAppPlatforms(platform) IN
     /\ maybePendingBuilds' = [i \in 1..Len(appPlatforms) |-> Inflight]
     /\ calls' = calls \o [i \in 1..Len(appPlatforms) |->
                             Call("getPendingBuildIdAsync", appPlatforms[i])]
     /\ pc' = "guard:checks"
  /\ UNCHANGED <<cmd, flags, user, world, platform, results,
                 accountHasPendingBuilds, exitCode, ctx, envPassword, archiveSource,
                 credentialsSource, ascAppIdentifier, options, logs>>

\* lines 137-145: the admin bypass, else one getPendingBuildIdAsync per platform
ensureNoPendingBuildsExistAsync ==
  /\ cmd = "build" /\ pc = "guard"
  /\ IF user.isExpoAdmin
     THEN /\ accountHasPendingBuilds' = "false"
          /\ pc' = "run:afterGuard"
          /\ UNCHANGED <<maybePendingBuilds, calls>>
     ELSE LET appPlatforms == toAppPlatforms(platform) IN
          /\ maybePendingBuilds' = [i \in 1..Len(appPlatforms) |-> Inflight]
          /\ calls' = calls \o [i \in 1..Len(appPlatforms) |->
                                  Call("getPendingBuildIdAsync", appPlatforms[i])]
          /\ pc' = "guard:checks"
          /\ UNCHANGED accountHasPendingBuilds
  /\ UNCHANGED <<cmd, flags, user, world, platform, results, exitCode, logs>>
  /\ UNCHANGED submitVars

\* one getPendingBuildIdAsync promise settles: the pending build's id, null,
\* or a failed query
getPendingBuildIdAsync(i) ==
  /\ cmd = "build" /\ pc \in {"guard:checks", "threw"}
  /\ i \in 1..Len(maybePendingBuilds)
  /\ maybePendingBuilds[i] = Inflight
  /\ \E failed \in BOOLEAN :
       maybePendingBuilds' =
         [maybePendingBuilds EXCEPT ![i] =
            IF failed THEN Rejected
            ELSE Fulfilled(world.pending[toAppPlatforms(platform)[i]])]
  /\ UNCHANGED <<cmd, pc, flags, user, world, platform, results,
                 accountHasPendingBuilds, exitCode, calls, logs>>
  /\ UNCHANGED submitVars

\* a join that reads a failed check as "no pending build"
ensureNoPendingBuildsExistAsync_Checked_FailOpen ==
  /\ cmd = "build" /\ pc = "guard:checks"
  /\ \A i \in 1..Len(maybePendingBuilds) : maybePendingBuilds[i] # Inflight
  /\ LET pendingBuilds ==
           FilterNonNull([i \in 1..Len(maybePendingBuilds) |->
                            IF maybePendingBuilds[i] = Rejected THEN Fulfilled("null")
                            ELSE maybePendingBuilds[i]]) IN
     IF Len(pendingBuilds) > 0
     THEN /\ logs' = Append(logs, [level |-> "error",
                                   msg |-> <<"Your other builds are still pending">>])
          /\ results' = [j \in 1..Len(pendingBuilds) |-> Inflight]
          /\ calls' = calls \o [j \in 1..Len(pendingBuilds) |->
                                  Call("byIdAsync", pendingBuilds[j])]
          /\ pc' = "guard:fetches"
          /\ UNCHANGED accountHasPendingBuilds
     ELSE /\ accountHasPendingBuilds' = "false"
          /\ pc' = "run:afterGuard"
          /\ UNCHANGED <<results, calls, logs>>
  /\ UNCHANGED <<cmd, flags, user, world, platform, maybePendingBuilds, exitCode,
                 ctx, envPassword, archiveSource, credentialsSource,
                 ascAppIdentifier, options>>

\* a join that goes on as soon as one check has returned a pending build
ensureNoPendingBuildsExistAsync_Checked_Race ==
  /\ cmd = "build" /\ pc = "guard:checks"
  /\ IF AnyRejected(maybePendingBuilds)
     THEN /\ Leave("threw", calls)
          /\ UNCHANGED <<results, accountHasPendingBuilds, logs>>
     ELSE LET pendingBuilds ==
                FilterNonNull(SelectSeq(maybePendingBuilds,
                                        LAMBDA p : p.st = "fulfilled")) IN
          IF Len(pendingBuilds) > 0
          THEN /\ logs' = Append(logs, [level |-> "error",
                                        msg |-> <<"Your other builds are still pending">>])
               /\ results' = [j \in 1..Len(pendingBuilds) |-> Inflight]
               /\ calls' = calls \o [j \in 1..Len(pendingBuilds) |->
                                       Call("byIdAsync", pendingBuilds[j])]
               /\ pc' = "guard:fetches"
               /\ UNCHANGED accountHasPendingBuilds
          ELSE /\ AllFulfilled(maybePendingBuilds)
               /\ accountHasPendingBuilds' = "false"
               /\ pc' = "run:afterGuard"
               /\ UNCHANGED <<results, calls, logs>>
  /\ UNCHANGED <<cmd, flags, user, world, platform, maybePendingBuilds, exitCode,
                 ctx, envPassword, archiveSource, credentialsSource,
                 ascAppIdentifier, options>>

\* lines 143-157 and 166: Promise.all over the checks settles (all fulfilled,
\* or the first rejection); then the filter and the byIdAsync fan-out
ensureNoPendingBuildsExistAsync_Checked ==
  /\ cmd = "build" /\ pc = "guard:checks"
  /\ IF AnyRejected(maybePendingBuilds)
     THEN /\ Leave("threw", calls)
          /\ UNCHANGED <<results, accountHasPendingBuilds, logs>>
     ELSE /\ AllFulfilled(maybePendingBuilds)
          /\ LET pendingBuilds == FilterNonNull(maybePendingBuilds) IN
             IF Len(pendingBuilds) > 0
             THEN /\ logs' = Append(logs, [level |-> "error",
                                           msg |-> <<"Your other builds are still pending">>])
                  /\ results' = [j \in 1..Len(pendingBuilds) |-> Inflight]
                  /\ calls' = calls \o [j \in 1..Len(pendingBuilds) |->
                                          Call("byIdAsync", pendingBuilds[j])]
                  /\ pc' = "guard:fetches"
                  /\ UNCHANGED accountHasPendingBuilds
             ELSE /\ accountHasPendingBuilds' = "false"
                  /\ pc' = "run:afterGuard"
                  /\ UNCHANGED <<results, calls, logs>>
  /\ UNCHANGED <<cmd, flags, user, world, platform, maybePendingBuilds, exitCode>>
  /\ UNCHANGED submitVars

\* one byIdAsync promise settles: the build's summary, or a failed query
byIdAsync(j) ==
  /\ cmd = "build" /\ pc \in {"guard:fetches", "threw"}
  /\ j \in 1..Len(results)
  /\ results[j] = Inflight
  /\ \E failed \in BOOLEAN :
       results' =
         [results EXCEPT ![j] =
            IF failed THEN Rejected
            ELSE Fulfilled(FilterNonNull(maybePendingBuilds)[j])]
  /\ UNCHANGED <<cmd, pc, flags, user, world, platform, maybePendingBuilds,
                 accountHasPendingBuilds, exitCode, calls, logs>>
  /\ UNCHANGED submitVars

\* lines 153-165: Promise.all over the fetches settles; each summary is
\* logged, the exit code is set and the guard returns true
ensureNoPendingBuildsExistAsync_Fetched ==
  /\ cmd = "build" /\ pc = "guard:fetches"
  /\ IF AnyRejected(results)
     THEN /\ Leave("threw", calls)
          /\ UNCHANGED <<accountHasPendingBuilds, exitCode, logs>>
     ELSE /\ AllFulfilled(results)
          /\ logs' = logs \o [j \in 1..Len(results) |->
                                [level |-> "log", msg |-> <<"build", results[j].v>>]]
          /\ exitCode' = 1
          /\ accountHasPendingBuilds' = "true"
          /\ pc' = "run:afterGuard"
          /\ UNCHANGED calls
  /\ UNCHANGED <<cmd, flags, user, world, platform, maybePendingBuilds, results>>
  /\ UNCHANGED submitVars

\* a run that goes on whatever the guard returned
Run_AfterGuard_NoReturn ==
  /\ cmd = "build" /\ pc = "run:afterGuard"
  /\ pc' = "run:configure"
  /\ UNCHANGED <<cmd, flags, user, world, platform, maybePendingBuilds, results,
                 accountHasPendingBuilds, exitCode, ctx, envPassword, archiveSource,
                 credentialsSource, ascAppIdentifier, options, calls, logs>>

\* lines 101-103: return when the guard found pending builds
Run_AfterGuard ==
  /\ cmd = "build" /\ pc = "run:afterGuard"
  /\ IF accountHasPendingBuilds = "true"
     THEN Leave("returned", calls)
     ELSE pc' = "run:configure" /\ UNCHANGED calls
  /\ UNCHANGED <<cmd, exitCode, logs>>
  /\ UNCHANGED buildVars
  /\ UNCHANGED submitVars

\* lines 214-241, called at line 105: eas.json exists, or the user is asked
\* to set the project up
ensureProjectConfiguredAsync ==
  /\ cmd = "build" /\ pc = "run:configure"
  /\ IF world.easJsonExists
     THEN pc' = "run:context" /\ UNCHANGED calls
     ELSE \E confirm \in BOOLEAN, gitClean \in BOOLEAN :
          LET asked == Append(calls, Call("confirmAsync", "set up")) IN
          IF confirm
          THEN LET configured == Append(asked, Call("configureAsync", "all")) IN
               IF ~gitClean
               THEN Leave("threw", configured)
               ELSE pc' = "run:context" /\ calls' = configured
          ELSE Leave("threw", asked)
  /\ UNCHANGED <<cmd, exitCode, logs>>
  /\ UNCHANGED buildVars
  /\ UNCHANGED submitVars

\* lines 107-118
Run_CreateCommandContext ==
  /\ cmd = "build" /\ pc = "run:context"
  /\ \E failed \in BOOLEAN :
       IF failed
       THEN Leave("threw", Append(calls, Call("createCommandContextAsync", platform)))
       ELSE /\ pc' = "run:build"
            /\ calls' = Append(calls, Call("createCommandContextAsync", platform))
  /\ UNCHANGED <<cmd, exitCode, logs>>
  /\ UNCHANGED buildVars
  /\ UNCHANGED submitVars

\* line 119
Run_BuildAsync ==
  /\ cmd = "build" /\ pc = "run:build"
  /\ \E failed \in BOOLEAN :
       Leave(IF failed THEN "threw" ELSE "returned",
             Append(calls, Call("buildAsync", platform)))
  /\ UNCHANGED <<cmd, exitCode, logs>>
  /\ UNCHANGED buildVars
  /\ UNCHANGED submitVars

-----------------------------------------------------------------------------
(* The iOS submit command *)

\* error messages are sequences of pieces of text; NL is the line break
NL == "\n"

\* Array.prototype.join
RECURSIVE Join(_, _)
Join(msgs, sep) ==
  IF msgs = <<>> THEN <<>>
  ELSE IF Len(msgs) = 1 THEN Head(msgs)
  ELSE Head(msgs) \o <<sep>> \o Join(Tail(msgs), sep)

\* Array.prototype.filter(r => !r.ok)
RECURSIVE FilterNotOk(_)
FilterNotOk(rs) ==
  IF rs = <<>> THEN <<>>
  ELSE IF ~Head(rs).ok THEN <<Head(rs)>> \o FilterNotOk(Tail(rs))
       ELSE FilterNotOk(Tail(rs))

\* what is given to result(): a value, or an Error object
Value(v) == [isError |-> FALSE, v |-> v]

Error(name, message) == [isError |-> TRUE, v |-> [name |-> name, message |-> message]]

\* result() of @expo/results: an Error becomes a failed Result, anything
\* else a successful one
result(x) ==
  IF x.isError THEN [ok |-> FALSE, reason |-> x.v]
  ELSE [ok |-> TRUE, value |-> x.v]

\* getenv.string(name, fallback)
getenv_string(v, fallback) == IF v = Undefined THEN fallback ELSE v

\* a function body that ran to its return, or threw
Return(v, ls) == [threw |-> FALSE, v |-> v, logs |-> ls]

Throw(message, ls) == [threw |-> TRUE, v |-> message, logs |-> ls]

\* a function body's outcome, with the calls it made on the way
Traced(r, cs) == [threw |-> r.threw, v |-> r.v, logs |-> r.logs, calls |-> cs]

\* what enforceValue and enforceError of @expo/results throw when the Result
\* is of the other kind
Fatal == [fatal |-> TRUE, name |-> "Error", message |-> <<"invalid Result access">>]

enforceValue(r) == IF r.ok THEN r.value ELSE Fatal

enforceError(r) == IF ~r.ok THEN r.reason ELSE Fatal

\* an enforceValue or enforceError call, recorded with the kind of its Result
Enforce(method, r) == Call(method, IF r.ok THEN "ok" ELSE "failed")

resolveAppSpecificPasswordSource ==
  LET envAppSpecificPassword == getenv_string(envPassword, "") IN
  IF Truthy(envAppSpecificPassword)
  THEN result(Value([sourceType |-> "userDefined",
                     appSpecificPassword |-> envAppSpecificPassword]))
  ELSE result(Error("MissingCredentialsError",
                    <<"The EXPO_APPLE_APP_SPECIFIC_PASSWORD environment variable must be set.">>))

AscApiKeyMessage ==
  <<"ascApiKeyPath, ascApiKeyIssuerId and ascApiKeyId must all be defined in eas.json">>

\* a resolver without the branch for a partly given key
resolveAscApiKeySource_NoPartial ==
  LET p == ctx.profile IN
  IF Truthy(p.ascApiKeyPath) /\ Truthy(p.ascApiKeyIssuerId) /\ Truthy(p.ascApiKeyId)
  THEN Return(result(Value([sourceType |-> "path",
                            path |-> [keyP8Path |-> p.ascApiKeyPath,
                                      issuerId |-> p.ascApiKeyIssuerId,
                                      keyId |-> p.ascApiKeyId]])), <<>>)
  ELSE Return(result(Value([sourceType |-> "credentialsService"])), <<>>)

\* a resolver that refuses the credentials service in non-interactive mode
resolveAscApiKeySource_StrictNonInteractive ==
  LET p == ctx.profile IN
  IF Truthy(p.ascApiKeyPath) /\ Truthy(p.ascApiKeyIssuerId) /\ Truthy(p.ascApiKeyId)
  THEN Return(result(Value([sourceType |-> "path",
                            path |-> [keyP8Path |-> p.ascApiKeyPath,
                                      issuerId |-> p.ascApiKeyIssuerId,
                                      keyId |-> p.ascApiKeyId]])), <<>>)
  ELSE IF ctx.nonInteractive THEN Throw(AscApiKeyMessage, <<>>)
  ELSE IF Truthy(p.ascApiKeyPath) \/ Truthy(p.ascApiKeyIssuerId) \/ Truthy(p.ascApiKeyId)
  THEN Return(result(Value([sourceType |-> "prompt"])),
              <<[level |-> "warn", msg |-> AscApiKeyMessage]>>)
  ELSE Return(result(Value([sourceType |-> "credentialsService"])), <<>>)

\* a resolver that swaps the issuer id and the key id
resolveAscApiKeySource_Swapped ==
  LET p == ctx.profile IN
  IF Truthy(p.ascApiKeyPath) /\ Truthy(p.ascApiKeyIssuerId) /\ Truthy(p.ascApiKeyId)
  THEN Return(result(Value([sourceType |-> "path",
                            path |-> [keyP8Path |-> p.ascApiKeyPath,
                                      issuerId |-> p.ascApiKeyId,
                                      keyId |-> p.ascApiKeyIssuerId]])), <<>>)
  ELSE IF Truthy(p.ascApiKeyPath) \/ Truthy(p.ascApiKeyIssuerId) \/ Truthy(p.ascApiKeyId)
  THEN IF ctx.nonInteractive
       THEN Throw(AscApiKeyMessage, <<>>)
       ELSE Return(result(Value([sourceType |-> "prompt"])),
                   <<[level |-> "warn", msg |-> AscApiKeyMessage]>>)
  ELSE Return(result(Value([sourceType |-> "credentialsService"])), <<>>)

resolveAscApiKeySource ==
  LET ascApiKeyPath == ctx.profile.ascApiKeyPath
      ascApiKeyIssuerId == ctx.profile.ascApiKeyIssuerId
      ascApiKeyId == ctx.profile.ascApiKeyId
  IN
  IF Truthy(ascApiKeyPath) /\ Truthy(ascApiKeyIssuerId) /\ Truthy(ascApiKeyId)
  THEN Return(result(Value([sourceType |-> "path",
                            path |-> [keyP8Path |-> ascApiKeyPath,
                                      issuerId |-> ascApiKeyIssuerId,
                                      keyId |-> ascApiKeyId]])), <<>>)
  ELSE IF Truthy(ascApiKeyPath) \/ Truthy(ascApiKeyIssuerId) \/ Truthy(ascApiKeyId)
  THEN IF ctx.nonInteractive
       THEN Throw(AscApiKeyMessage, <<>>)
       ELSE Return(result(Value([sourceType |-> "prompt"])),
                   <<[level |-> "warn", msg |-> AscApiKeyMessage]>>)
  ELSE Return(result(Value([sourceType |-> "credentialsService"])), <<>>)

\* a chain that returns both sources
resolveCredentialSubmissionOptions_Both ==
  LET ascApiKeySource == resolveAscApiKeySource
      made == <<Call("resolveAscApiKeySource", ""),
                Call("resolveAppSpecificPasswordSource", "")>>
  IN
  IF ascApiKeySource.threw THEN Traced(ascApiKeySource, <<made[1]>>)
  ELSE Traced(Return([appSpecificPasswordSource |-> resolveAppSpecificPasswordSource,
                      ascApiKeySource |-> ascApiKeySource.v], ascApiKeySource.logs),
              made)

\* a chain that resolves the API key before it looks at the password
resolveCredentialSubmissionOptions_KeyFirst ==
  LET ascApiKeySource == resolveAscApiKeySource
      appSpecificPasswordSource == resolveAppSpecificPasswordSource
      made == <<Call("resolveAscApiKeySource", ""),
                Call("resolveAppSpecificPasswordSource", "")>>
  IN
  IF ascApiKeySource.threw THEN Traced(ascApiKeySource, <<made[1]>>)
  ELSE IF appSpecificPasswordSource.ok
  THEN Traced(Return([appSpecificPasswordSource |-> appSpecificPasswordSource], <<>>),
              made)
  ELSE Traced(Return([ascApiKeySource |-> ascApiKeySource.v], ascApiKeySource.logs),
              made \o <<Enforce("enforceError", appSpecificPasswordSource)>>)

\* lines 71-86
resolveCredentialSubmissionOptions ==
  LET appSpecificPasswordSource == resolveAppSpecificPasswordSource
      shouldSkipAppSpecificPasswordSource ==
        /\ ~appSpecificPasswordSource.ok
        /\ enforceError(appSpecificPasswordSource).name = "MissingCredentialsError"
      \* line 76, and line 79 when line 78 lets it run
      first == <<Call("resolveAppSpecificPasswordSource", "")>>
               \o (IF ~appSpecificPasswordSource.ok
                   THEN <<Enforce("enforceError", appSpecificPasswordSource)>>
                   ELSE <<>>)
  IN
  IF ~shouldSkipAppSpecificPasswordSource
  THEN Traced(Return([appSpecificPasswordSource |-> resolveAppSpecificPasswordSource],
                     <<>>),
              first \o <<Call("resolveAppSpecificPasswordSource", "")>>)
  ELSE LET ascApiKeySource == resolveAscApiKeySource
           made == first \o <<Call("resolveAscApiKeySource", "")>>
       IN
       IF ascApiKeySource.threw THEN Traced(ascApiKeySource, made)
       ELSE Traced(Return([ascApiKeySource |-> ascApiKeySource.v],
                          ascApiKeySource.logs), made)

\* the messages resolveArchiveSource of submit/commons may throw
ArchiveErrors == {<<"archive file does not exist">>, <<"couldn't find build", "for the URL">>}

\* the messages ensureAppStoreConnectAppExistsAsync may throw
AppProduceErrors == {<<"Apple authentication failed">>}

AscAppIdMessage ==
  <<"Set ascAppId in the submit profile (eas.json) or re-run this command in interactive mode.">>

\* lines 24-25, 32 and 137-143: the archive source, its exception caught
resolveArchiveSource ==
  /\ cmd = "submit" /\ pc = "runAsync"
  /\ \/ archiveSource' = result(Value("archive"))
     \/ \E m \in ArchiveErrors : archiveSource' = result(Error("Error", m))
  /\ pc' = "resolve:credentials"
  /\ calls' = Append(calls, Call("resolveArchiveSource", ""))
  /\ UNCHANGED <<cmd, exitCode, ctx, envPassword, credentialsSource,
                 ascAppIdentifier, options, logs>>
  /\ UNCHANGED buildVars

\* a credential step that gives up when the archive source has failed
resolveCredentialSubmissionOptionsAsync_FailFast ==
  /\ cmd = "submit" /\ pc = "resolve:credentials"
  /\ LET r == resolveCredentialSubmissionOptions IN
     IF ~archiveSource.ok
     THEN /\ logs' = Append(logs, [level |-> "error",
                                   msg |-> archiveSource.reason.message])
          /\ pc' = "threw"
          /\ UNCHANGED <<credentialsSource, calls>>
     ELSE /\ logs' = logs \o r.logs
          /\ calls' = calls \o r.calls
          /\ IF r.threw
             THEN pc' = "threw" /\ UNCHANGED credentialsSource
             ELSE pc' = "resolve:ascAppId" /\ credentialsSource' = r.v
  /\ UNCHANGED <<cmd, exitCode, ctx, envPassword, archiveSource,
                 ascAppIdentifier, options, flags, user, world, platform,
                 maybePendingBuilds, results, accountHasPendingBuilds>>

\* line 33 and 71-135: the credential chain
resolveCredentialSubmissionOptionsAsync ==
  /\ cmd = "submit" /\ pc = "resolve:credentials"
  /\ LET r == resolveCredentialSubmissionOptions IN
     /\ logs' = logs \o r.logs
     /\ calls' = calls \o r.calls
     /\ IF r.threw
        THEN pc' = "threw" /\ UNCHANGED credentialsSource
        ELSE pc' = "resolve:ascAppId" /\ credentialsSource' = r.v
  /\ UNCHANGED <<cmd, exitCode, ctx, envPassword, archiveSource,
                 ascAppIdentifier, options>>
  /\ UNCHANGED buildVars

\* an app identifier step that asks App Store Connect in either mode
resolveAscAppIdentifierAsync_IgnoresMode ==
  /\ cmd = "submit" /\ pc = "resolve:ascAppId"
  /\ LET ascAppId == ctx.profile.ascAppId IN
     IF Truthy(ascAppId)
     THEN /\ ascAppIdentifier' = result(Value(ascAppId))
          /\ UNCHANGED <<calls, logs>>
     ELSE /\ logs' = Append(logs, [level |-> "log",
                                   msg |-> <<"Ensuring your app exists on App Store Connect">>])
          /\ calls' = Append(calls, Call("ensureAppStoreConnectAppExistsAsync", ""))
          /\ \/ ascAppIdentifier' = result(Value("remote-app-id"))
             \/ \E m \in AppProduceErrors :
                  ascAppIdentifier' = result(Error("Error", m))
  /\ pc' = "resolve:build"
  /\ UNCHANGED <<cmd, exitCode, ctx, envPassword, archiveSource,
                 credentialsSource, options, flags, user, world, platform,
                 maybePendingBuilds, results, accountHasPendingBuilds>>

\* line 40 and 145-172: the App Store Connect app identifier
resolveAscAppIdentifierAsync ==
  /\ cmd = "submit" /\ pc = "resolve:ascAppId"
  /\ LET ascAppId == ctx.profile.ascAppId IN
     IF Truthy(ascAppId)
     THEN /\ ascAppIdentifier' = result(Value(ascAppId))
          /\ UNCHANGED <<calls, logs>>
     ELSE IF ctx.nonInteractive
     THEN /\ ascAppIdentifier' = result(Error("Error", AscAppIdMessage))
          /\ UNCHANGED <<calls, logs>>
     ELSE /\ logs' = Append(logs, [level |-> "log",
                                   msg |-> <<"Ensuring your app exists on App Store Connect">>])
          /\ calls' = Append(calls, Call("ensureAppStoreConnectAppExistsAsync", ""))
          /\ \/ ascAppIdentifier' = result(Value("remote-app-id"))
             \/ \E m \in AppProduceErrors :
                  ascAppIdentifier' = result(Error("Error", m))
  /\ pc' = "resolve:build"
  /\ UNCHANGED <<cmd, exitCode, ctx, envPassword, archiveSource,
                 credentialsSource, options>>
  /\ UNCHANGED buildVars

\* a spread of an optional field
Spread(present, field, v) == IF present THEN field :> v ELSE <<>>

\* a failure check that leaves the app identifier out
Inspected_NoAppId(archive, credentials, appId) ==
  <<archive>>
  \o (IF "appSpecificPasswordSource" \in DOMAIN credentials
      THEN <<credentials.appSpecificPasswordSource>> ELSE <<>>)
  \o (IF "ascApiKeySource" \in DOMAIN credentials
      THEN <<credentials.ascApiKeySource>> ELSE <<>>)

\* lines 34-39 and 42-47: the Results the failure check looks at
Inspected(archive, credentials, appId) ==
  LET maybeAppSpecificPasswordSource ==
        IF "appSpecificPasswordSource" \in DOMAIN credentials
        THEN credentials.appSpecificPasswordSource ELSE Null
      maybeAscApiKeySource ==
        IF "ascApiKeySource" \in DOMAIN credentials
        THEN credentials.ascApiKeySource ELSE Null
  IN <<archive>>
     \o (IF maybeAppSpecificPasswordSource # Null
         THEN <<maybeAppSpecificPasswordSource>> ELSE <<>>)
     \o (IF maybeAscApiKeySource # Null THEN <<maybeAscApiKeySource>> ELSE <<>>)
     \o <<appId>>

\* a report of the first failed Result only
ErrorMessage_FirstOnly(errored) == errored[1].reason.message

\* line 49: the one message built from the failed Results
ErrorMessage(errored) == Join([i \in 1..Len(errored) |-> errored[i].reason.message], NL)

\* a bundle with the archive source and the app identifier in each other's place
Bundle_Swapped(archive, credentials, appId) ==
  [projectId |-> ctx.projectId,
   ascAppIdentifier |-> enforceValue(archive),
   archiveSource |-> enforceValue(appId)]
  @@ Spread("appSpecificPasswordSource" \in DOMAIN credentials,
            "appSpecificPasswordSource",
            IF "appSpecificPasswordSource" \in DOMAIN credentials
            THEN enforceValue(credentials.appSpecificPasswordSource) ELSE Null)
  @@ Spread("ascApiKeySource" \in DOMAIN credentials,
            "ascApiKeySource",
            IF "ascApiKeySource" \in DOMAIN credentials
            THEN enforceValue(credentials.ascApiKeySource) ELSE Null)

\* lines 54-68: the bundle
Bundle(archive, credentials, appId) ==
  [projectId |-> ctx.projectId,
   ascAppIdentifier |-> enforceValue(appId),
   archiveSource |-> enforceValue(archive)]
  @@ Spread("appSpecificPasswordSource" \in DOMAIN credentials,
            "appSpecificPasswordSource",
            IF "appSpecificPasswordSource" \in DOMAIN credentials
            THEN enforceValue(credentials.appSpecificPasswordSource) ELSE Null)
  @@ Spread("ascApiKeySource" \in DOMAIN credentials,
            "ascApiKeySource",
            IF "ascApiKeySource" \in DOMAIN credentials
            THEN enforceValue(credentials.ascApiKeySource) ELSE Null)

\* lines 56-65: the Results enforceValue is called on, in the order of the
\* object literal
Enforced(archive, credentials, appId) ==
  <<appId, archive>>
  \o (IF "appSpecificPasswordSource" \in DOMAIN credentials
      THEN <<credentials.appSpecificPasswordSource>> ELSE <<>>)
  \o (IF "ascApiKeySource" \in DOMAIN credentials
      THEN <<credentials.ascApiKeySource>> ELSE <<>>)

\* the enforceValue calls made until one of them throws
RECURSIVE EnforceCalls(_)
EnforceCalls(rs) ==
  IF rs = <<>> THEN <<>>
  ELSE IF ~Head(rs).ok THEN <<Enforce("enforceValue", Head(rs))>>
  ELSE <<Enforce("enforceValue", Head(rs))>> \o EnforceCalls(Tail(rs))

\* lines 34-68: the failure check, then the bundle
resolveSubmissionOptionsAsync ==
  /\ cmd = "submit" /\ pc = "resolve:build"
  /\ LET errored == FilterNotOk(Inspected(archiveSource, credentialsSource,
                                          ascAppIdentifier)) IN
     IF Len(errored) > 0
     THEN /\ logs' = Append(logs, [level |-> "error", msg |-> ErrorMessage(errored)])
          /\ pc' = "threw"
          /\ UNCHANGED <<options, calls>>
     ELSE LET enforced == Enforced(archiveSource, credentialsSource, ascAppIdentifier)
          IN /\ calls' = calls \o EnforceCalls(enforced)
             /\ IF \A i \in 1..Len(enforced) : enforced[i].ok
                THEN /\ options' = Bundle(archiveSource, credentialsSource,
                                          ascAppIdentifier)
                     /\ pc' = "submit"
                ELSE /\ pc' = "threw"
                     /\ UNCHANGED options
             /\ UNCHANGED logs
  /\ UNCHANGED <<cmd, exitCode, ctx, envPassword, archiveSource,
                 credentialsSource, ascAppIdentifier>>
  /\ UNCHANGED buildVars

\* lines 27-28: the bundle is handed to IosSubmitter
submitAsync ==
  /\ cmd = "submit" /\ pc = "submit"
  /\ calls' = Append(calls, Call("submitAsync", options))
  /\ \E failed \in BOOLEAN : pc' = IF failed THEN "threw" ELSE "returned"
  /\ UNCHANGED <<cmd, exitCode, logs>>
  /\ UNCHANGED submitVars
  /\ UNCHANGED buildVars

-----------------------------------------------------------------------------
(* Initial states *)

\* the build ids the service may report as pending, one per platform
PendingId(p) == IF p = "ANDROID" THEN "build-android" ELSE "build-ios"

NoFlags == [platform |-> Undefined, nonInteractive |-> FALSE, local |-> FALSE]

NoWorld == [easEnabled |-> TRUE, processPlatform |-> "darwin", easJsonExists |-> TRUE,
            pending |-> [p \in AppPlatform |-> "null"]]

NoCtx == [nonInteractive |-> FALSE, projectId |-> "project",
          profile |-> [ascApiKeyPath |-> Undefined, ascApiKeyIssuerId |-> Undefined,
                       ascApiKeyId |-> Undefined, ascAppId |-> Undefined]]

InitBuild ==
  /\ cmd = "build"
  /\ pc = "run"
  /\ flags \in [platform : RequestedPlatform \cup {Undefined},
                nonInteractive : BOOLEAN, local : BOOLEAN]
  /\ user \in [isExpoAdmin : BOOLEAN]
  /\ world \in [easEnabled : BOOLEAN, processPlatform : {"darwin", "linux"},
                easJsonExists : BOOLEAN,
                pending : {f \in [AppPlatform -> {"null", "build-android", "build-ios"}] :
                             \A p \in AppPlatform : f[p] \in {"null", PendingId(p)}}]
  /\ ctx = NoCtx
  /\ envPassword = ""
  /\ calls = <<Call("initAnalyticsAsync", ""), Call("ensureLoggedInAsync", "")>>

\* the profile fields come from eas.json, whose schema admits no empty string
InitSubmit ==
  /\ cmd = "submit"
  /\ pc = "runAsync"
  /\ flags = NoFlags
  /\ user = [isExpoAdmin |-> FALSE]
  /\ world = NoWorld
  /\ ctx \in [nonInteractive : BOOLEAN, projectId : {"project"},
              profile : [ascApiKeyPath : {Undefined, "AuthKey.p8"},
                         ascApiKeyIssuerId : {Undefined, "issuer"},
                         ascApiKeyId : {Undefined, "keyid"},
                         ascAppId : {Undefined, "1234567890"}]]
  /\ envPassword \in {Undefined, "", "abcd-efgh"}
  /\ calls = <<>>

Init ==
  /\ (InitBuild \/ InitSubmit)
  /\ platform = Undefined
  /\ maybePendingBuilds = <<>>
  /\ results = <<>>
  /\ accountHasPendingBuilds = Undefined
  /\ exitCode = 0
  /\ archiveSource = Null
  /\ credentialsSource = Null
  /\ ascAppIdentifier = Null
  /\ options = Null
  /\ logs = <<>>

Next ==
  \/ Run_ResolvePlatform
  \/ Run_VerifyOptions
  \/ ensureNoPendingBuildsExistAsync
  \/ \E i \in 1..Cardinality(AppPlatform) : getPendingBuildIdAsync(i)
  \/ ensureNoPendingBuildsExistAsync_Checked
  \/ \E j \in 1..Cardinality(AppPlatform) : byIdAsync(j)
  \/ ensureNoPendingBuildsExistAsync_Fetched
  \/ Run_AfterGuard
  \/ ensureProjectConfiguredAsync
  \/ Run_CreateCommandContext
  \/ Run_BuildAsync
  \/ resolveArchiveSource
  \/ resolveCredentialSubmissionOptionsAsync
  \/ resolveAscAppIdentifierAsync
  \/ resolveSubmissionOptionsAsync
  \/ submitAsync

Spec == Init /\ [][Next]_vars

-----------------------------------------------------------------------------
(* Properties *)

Terminated == pc \in {"returned", "threw"}

\* the build command is past its guard: the guard returned
PastGuard == pc \in {"run:afterGuard", "run:configure", "run:context", "run:build"}

\* a per-platform check of this run returned a pending build
JobFound ==
  \E i \in 1..Len(maybePendingBuilds) :
    maybePendingBuilds[i].st = "fulfilled" /\ maybePendingBuilds[i].v # "null"

\* the command went on after the guard
WentOn ==
  \/ pc \in {"run:configure", "run:context", "run:build"}
  \/ Called("confirmAsync") \/ Called("configureAsync")
  \/ Called("createCommandContextAsync") \/ Called("buildAsync")

\* C1 as written: for a non-privileged user, every run in which a per-platform
\* check returned a job ends with the guard having returned true, a non-zero
\* exit status, and nothing of the rest of the command reached.
C1_Original ==
  (cmd = "build" /\ ~user.isExpoAdmin /\ JobFound /\ Terminated)
    => /\ accountHasPendingBuilds = "true"
       /\ exitCode # 0
       /\ ~WentOn

\* C1 as amended: for a non-privileged user, a run in which a per-platform
\* check returned a job never reaches project configuration, context creation
\* or buildAsync; and when no query of the guard failed, it ends returned, with
\* the guard having returned true and exit status 1.
C1_PendingJobBlocks ==
  (cmd = "build" /\ ~user.isExpoAdmin /\ JobFound)
    => /\ ~WentOn
       /\ (Terminated /\ ~AnyRejected(maybePendingBuilds) /\ ~AnyRejected(results))
            => /\ pc = "returned"
               /\ accountHasPendingBuilds = "true"
               /\ exitCode = 1

C1_Witness ==
  /\ cmd = "build" /\ ~user.isExpoAdmin /\ JobFound
  /\ pc = "returned" /\ accountHasPendingBuilds = "true" /\ exitCode = 1
  /\ platform = "all"

\* C2: a failed getPendingBuildIdAsync or byIdAsync query is never read as
\* "no pending job": once a query of the guard has failed the guard returns
\* neither true nor false, the run can only end thrown, and buildAsync is
\* not called.
C2_FailurePropagates ==
  (cmd = "build" /\ (AnyRejected(maybePendingBuilds) \/ AnyRejected(results)))
    => /\ accountHasPendingBuilds = Undefined
       /\ pc \in {"guard:checks", "guard:fetches", "threw"}
       /\ ~WentOn

C2_Witness ==
  /\ cmd = "build" /\ pc = "threw" /\ platform = "all"
  /\ maybePendingBuilds = <<Fulfilled("null"), Rejected>>

\* C3: for a privileged user the guard returns false whatever the selector
\* and whatever the service holds, and issues neither an existence check nor
\* a summary fetch.
C3_AdminBypass ==
  (cmd = "build" /\ user.isExpoAdmin)
    => /\ ~Called("getPendingBuildIdAsync")
       /\ ~Called("byIdAsync")
       /\ pc \notin {"guard:checks", "guard:fetches"}
       /\ accountHasPendingBuilds # "true"
       /\ (PastGuard \/ Called("buildAsync")) => accountHasPendingBuilds = "false"

C3_Witness ==
  /\ cmd = "build" /\ user.isExpoAdmin /\ platform = "all"
  /\ \A p \in AppPlatform : world.pending[p] # "null"
  /\ accountHasPendingBuilds = "false" /\ Called("buildAsync")

\* the pending builds the service holds for the platforms of the selector
ExpectedPending ==
  LET sel == SelectSeq(toAppPlatforms(platform), LAMBDA p : world.pending[p] # "null")
  IN [j \in 1..Len(sel) |-> world.pending[sel[j]]]

\* the build summaries reported to the user
Reported ==
  LET lines == SelectSeq(logs, LAMBDA l : l.level = "log")
  IN [j \in 1..Len(lines) |-> lines[j].msg]

\* C4: for a non-privileged user, when the guard returns (no query failed) it
\* has fetched and reported exactly one summary per platform of the selector
\* whose check returned a pending build, and it returns true iff there is at
\* least one.
C4_OneSummaryPerPendingPlatform ==
  (cmd = "build" /\ ~user.isExpoAdmin /\ accountHasPendingBuilds # Undefined)
    => /\ ArgsOf("byIdAsync", calls) = ExpectedPending
       /\ Reported = [j \in 1..Len(ExpectedPending) |-> <<"build", ExpectedPending[j]>>]
       /\ (accountHasPendingBuilds = "true") <=> (Len(ExpectedPending) >= 1)

C4_Witness ==
  /\ cmd = "build" /\ ~user.isExpoAdmin /\ platform = "all"
  /\ world.pending["ANDROID"] = "null" /\ world.pending["IOS"] # "null"
  /\ accountHasPendingBuilds = "true"
  /\ Len(Reported) = 1

\* the lines of a message
RECURSIVE Lines(_)
Lines(msg) ==
  IF msg = <<>> THEN << <<>> >>
  ELSE LET rest == Lines(Tail(msg)) IN
       IF Head(msg) = NL THEN << <<>> >> \o rest
       ELSE << <<Head(msg)>> \o Head(rest) >> \o Tail(rest)

\* the messages of the failed Results the resolvers returned in this run
FailedMessages ==
  LET msgOf(r) == IF r # Null /\ ~r.ok THEN <<r.reason.message>> ELSE <<>>
      cred(k) == IF credentialsSource # Null /\ k \in DOMAIN credentialsSource
                 THEN msgOf(credentialsSource[k]) ELSE <<>>
  IN msgOf(archiveSource) \o cred("appSpecificPasswordSource")
     \o cred("ascApiKeySource") \o msgOf(ascAppIdentifier)

ErrorLogs == SelectSeq(logs, LAMBDA l : l.level = "error")

\* C5: when two or more resolvers returned failed Results, no bundle is built
\* and submitAsync is not called; the function throws, and the one message it
\* reports holds the message of every failed Result, one per line.
C5_AllFailuresReported ==
  (cmd = "submit" /\ Len(FailedMessages) >= 2)
    => /\ options = Null
       /\ ~Called("submitAsync")
       /\ pc \in {"resolve:build", "threw"}
       /\ pc = "threw" => /\ Len(ErrorLogs) = 1
                          /\ Lines(ErrorLogs[1].msg) = FailedMessages

C5_Witness ==
  /\ cmd = "submit" /\ pc = "threw"
  /\ Len(FailedMessages) = 2
  /\ Len(ErrorLogs) = 1 /\ Len(Lines(ErrorLogs[1].msg)) = 2

\* no app-specific password in the environment
NoPassword == envPassword \in {Undefined, ""}

\* how many of the three key fields the profile sets
KeyFieldsSet ==
  Cardinality({f \in {"ascApiKeyPath", "ascApiKeyIssuerId", "ascApiKeyId"} :
                 ctx.profile[f] # Undefined})

\* the credential chain has run
ChainDone == cmd = "submit" /\ pc \notin {"runAsync", "resolve:credentials"}

\* the chain selected this variant of the API key source
SelectedAscApiKey(source) ==
  credentialsSource = [ascApiKeySource |-> [ok |-> TRUE, value |-> source]]

\* C6: with no password and some but not all of the three key fields set, in
\* non-interactive mode the resolution throws and no bundle is built; in
\* interactive mode the chain selects the prompt variant, after a warning.
C6_PartialKey ==
  (ChainDone /\ NoPassword /\ KeyFieldsSet \in {1, 2})
    => IF ctx.nonInteractive
       THEN /\ pc = "threw"
            /\ credentialsSource = Null
            /\ options = Null
            /\ ~Called("submitAsync")
       ELSE /\ SelectedAscApiKey([sourceType |-> "prompt"])
            /\ \E i \in 1..Len(logs) :
                 logs[i] = [level |-> "warn", msg |-> AscApiKeyMessage]

C6_Witness ==
  /\ ChainDone /\ NoPassword /\ KeyFieldsSet = 2 /\ ~ctx.nonInteractive
  /\ SelectedAscApiKey([sourceType |-> "prompt"])
  /\ Called("submitAsync")

\* the bundle carries a deferred credential source
DeferredBundle(o) ==
  /\ o # Null
  /\ "ascApiKeySource" \in DOMAIN o
  /\ o.ascApiKeySource.sourceType \in {"prompt", "credentialsService"}

\* C7 as written: in non-interactive mode, with no password and no key field,
\* the chain does not yield the credentials-service variant, and no bundle
\* carrying a deferred source is built.
C7_Original ==
  (ChainDone /\ ctx.nonInteractive /\ NoPassword /\ KeyFieldsSet = 0)
    => /\ ~SelectedAscApiKey([sourceType |-> "credentialsService"])
       /\ ~DeferredBundle(options)

\* C7 as amended: in non-interactive mode, with no password and no key field,
\* the chain yields the credentials-service variant as a successful Result;
\* the resolution then fails only on the archive source or the ascAppId, and
\* otherwise the bundle built carries that variant. A bundle carrying the
\* prompt variant is never built in non-interactive mode.
C7_ServiceVariantNonInteractive ==
  /\ (ChainDone /\ ctx.nonInteractive /\ NoPassword /\ KeyFieldsSet = 0)
       => /\ SelectedAscApiKey([sourceType |-> "credentialsService"])
          /\ pc \in {"submit", "returned"} =>
               /\ DeferredBundle(options)
               /\ options.ascApiKeySource = [sourceType |-> "credentialsService"]
          /\ (pc = "threw" /\ ~Called("submitAsync")) =>
               (~archiveSource.ok \/ ctx.profile.ascAppId = Undefined)
  /\ (cmd = "submit" /\ ctx.nonInteractive /\ DeferredBundle(options))
       => options.ascApiKeySource.sourceType # "prompt"

C7_Witness ==
  /\ ChainDone /\ ctx.nonInteractive /\ NoPassword /\ KeyFieldsSet = 0
  /\ Called("submitAsync")
  /\ options.ascApiKeySource = [sourceType |-> "credentialsService"]

\* C8: in non-interactive mode neither command calls promptAsync or
\* confirmAsync, nor the interactive App Store Connect step.
C8_NoPromptNonInteractive ==
  ((cmd = "build" /\ flags.nonInteractive) \/ (cmd = "submit" /\ ctx.nonInteractive))
    => /\ ~Called("promptAsync")
       /\ ~Called("confirmAsync")
       /\ ~Called("ensureAppStoreConnectAppExistsAsync")

CredentialKeys == {"appSpecificPasswordSource", "ascApiKeySource"}

\* the variants each field of the chain's result may carry
VariantsOf(k) ==
  IF k = "appSpecificPasswordSource" THEN {"userDefined"}
  ELSE {"path", "prompt", "credentialsService"}

\* C9: when the chain completes, its result carries exactly one of
\* appSpecificPasswordSource and ascApiKeySource, a successful Result of one
\* of the four variants, and the bundle carries exactly that credential field.
C9_ExactlyOneVariant ==
  (cmd = "submit" /\ credentialsSource # Null)
    => /\ DOMAIN credentialsSource \subseteq CredentialKeys
       /\ Cardinality(DOMAIN credentialsSource) = 1
       /\ \A k \in DOMAIN credentialsSource :
            /\ credentialsSource[k].ok
            /\ credentialsSource[k].value.sourceType \in VariantsOf(k)
       /\ options # Null =>
            /\ DOMAIN options \cap CredentialKeys = DOMAIN credentialsSource
            /\ \A k \in DOMAIN credentialsSource :
                 options[k] = credentialsSource[k].value

C9_Witness ==
  /\ cmd = "submit" /\ options # Null
  /\ DOMAIN options \cap CredentialKeys = {"appSpecificPasswordSource"}
  /\ KeyFieldsSet = 3

\* C10: with no password and all three key fields set, the chain selects the
\* path variant carrying those three values, in either mode.
C10_FullKeySelectsPath ==
  (ChainDone /\ NoPassword /\ KeyFieldsSet = 3)
    => SelectedAscApiKey([sourceType |-> "path",
                          path |-> [keyP8Path |-> "AuthKey.p8",
                                    issuerId |-> "issuer",
                                    keyId |-> "keyid"]])

C10_Witness ==
  /\ ChainDone /\ NoPassword /\ KeyFieldsSet = 3 /\ ctx.nonInteractive
  /\ options # Null
  /\ options.ascApiKeySource.sourceType = "path"

\* C11: a bundle exists only when every Result is successful; it then holds
\* exactly projectId, archiveSource, ascAppIdentifier and the one credential
\* field of the chain, each the value its resolver produced, and it is the
\* bundle handed to submitAsync.
C11_BundleExact ==
  cmd = "submit"
    => /\ Len(FailedMessages) >= 1 => options = Null
       /\ options # Null =>
            /\ archiveSource.ok /\ ascAppIdentifier.ok
            /\ \A k \in DOMAIN credentialsSource : credentialsSource[k].ok
            /\ DOMAIN options = {"projectId", "archiveSource", "ascAppIdentifier"}
                                  \cup DOMAIN credentialsSource
            /\ options.projectId = ctx.projectId
            /\ options.archiveSource = archiveSource.value
            /\ options.ascAppIdentifier = ascAppIdentifier.value
            /\ \A k \in DOMAIN credentialsSource :
                 options[k] = credentialsSource[k].value
       /\ \A i \in 1..Len(calls) :
            calls[i].op = "submitAsync" => (options # Null /\ calls[i].arg = options)

C11_Witness ==
  /\ cmd = "submit" /\ Called("submitAsync") /\ options # Null
  /\ DOMAIN options = {"projectId", "archiveSource", "ascAppIdentifier", "ascApiKeySource"}
  /\ options.ascAppIdentifier = "remote-app-id"
  /\ options.ascApiKeySource.sourceType = "path"

\* C12: toAppPlatforms maps All to [Android, iOS] in that order, Android to
\* [Android] and iOS to [iOS]; its result is never empty and holds no
\* platform twice.
C12_ToAppPlatforms ==
  (cmd = "build" /\ platform # Undefined)
    => LET expansion == toAppPlatforms(platform) IN
       /\ platform = "all" => expansion = <<"ANDROID", "IOS">>
       /\ platform = "android" => expansion = <<"ANDROID">>
       /\ platform = "ios" => expansion = <<"IOS">>
       /\ Len(expansion) >= 1
       /\ \A i, j \in 1..Len(expansion) : expansion[i] = expansion[j] => i = j

C12_Witness ==
  /\ cmd = "build" /\ platform = "all"
  /\ ArgsOf("getPendingBuildIdAsync", calls) = <<"ANDROID", "IOS">>

\* --local with platform All, or with platform iOS on a host that is not macOS
PolicyViolation ==
  /\ flags.local
  /\ platform # Undefined
  /\ platform = "all" \/ (platform = "ios" /\ world.processPlatform # "darwin")

\* C13: a run with --local and platform All, or --local and platform iOS off
\* macOS, logs an error, sets exit status 1 and returns; it issues no
\* pending-job query, configures nothing and does not call buildAsync.
C13_PolicyViolationStops ==
  (cmd = "build" /\ PolicyViolation)
    => /\ pc \in {"run:easEnabled", "returned"}
       /\ ~Called("getPendingBuildIdAsync") /\ ~Called("byIdAsync")
       /\ ~WentOn
       /\ pc = "returned" => /\ exitCode = 1
                             /\ Len(ErrorLogs) = 1

C13_Witness ==
  /\ cmd = "build" /\ PolicyViolation /\ platform = "ios"
  /\ pc = "returned" /\ exitCode = 1 /\ Len(ErrorLogs) = 1

\* the resolution has ended in a failure
ResolutionFailed == cmd = "submit" /\ pc = "threw" /\ ~Called("submitAsync")

\* the one case in which resolveAscApiKeySource throws
PartialKeyNonInteractive == ctx.nonInteractive /\ NoPassword /\ KeyFieldsSet \in {1, 2}

\* C14 as written: in every run that ends in a reported failure, the archive
\* source, the credential chain and the app identifier were all attempted.
C14_Original ==
  ResolutionFailed
    => /\ archiveSource # Null
       /\ Called("resolveAppSpecificPasswordSource")
       /\ ascAppIdentifier # Null

\* C14 as amended: whenever the failure check reports, all three resolvers
\* were attempted, and a failed archive source stops neither of the other
\* two; the resolution ends without the app identifier attempted only when
\* resolveAscApiKeySource threw (non-interactive, no password, some but not
\* all key fields), and then nothing was reported through the failure check.
C14_AllAttemptedUnlessKeyThrows ==
  cmd = "submit"
    => /\ ErrorLogs # <<>> =>
            /\ archiveSource # Null
            /\ Called("resolveAppSpecificPasswordSource")
            /\ ascAppIdentifier # Null
       /\ (ResolutionFailed /\ ascAppIdentifier = Null) =>
            /\ PartialKeyNonInteractive
            /\ Called("resolveAscApiKeySource")
            /\ credentialsSource = Null
            /\ ErrorLogs = <<>>
       /\ (ResolutionFailed /\ ~PartialKeyNonInteractive) =>
            /\ archiveSource # Null
            /\ Called("resolveAppSpecificPasswordSource")
            /\ ascAppIdentifier # Null

C14_Witness ==
  /\ ResolutionFailed /\ ~PartialKeyNonInteractive
  /\ ~archiveSource.ok
  /\ Called("resolveAscApiKeySource")
  /\ ascAppIdentifier # Null /\ ~ascAppIdentifier.ok

\* C15: every enforceValue call is on a successful Result and every
\* enforceError call on a failed one, so neither ever throws.
C15_EnforceOnlyChecked ==
  cmd = "submit"
    => /\ \A i \in 1..Len(calls) :
            /\ calls[i].op = "enforceValue" => calls[i].arg = "ok"
            /\ calls[i].op = "enforceError" => calls[i].arg = "failed"
       /\ pc \in {"submit", "returned"} => options # Null

C15_Witness ==
  /\ cmd = "submit" /\ options # Null
  /\ Called("enforceError")
  /\ Len(ArgsOf("enforceValue", calls)) = 3

\* C16: with a non-empty EXPO_APPLE_APP_SPECIFIC_PASSWORD the chain selects
\* the user-defined password and never consults resolveAscApiKeySource,
\* whatever the profile's key fields and the mode; the key resolver is
\* consulted only after the password resolver failed.
C16_PasswordFirst ==
  cmd = "submit"
    => /\ (ChainDone /\ ~NoPassword) =>
            /\ credentialsSource =
                 [appSpecificPasswordSource |->
                    [ok |-> TRUE,
                     value |-> [sourceType |-> "userDefined",
                                appSpecificPassword |-> envPassword]]]
            /\ ~Called("resolveAscApiKeySource")
            /\ \A i \in 1..Len(logs) : logs[i].level # "warn"
       /\ Called("resolveAscApiKeySource") =>
            /\ NoPassword
            /\ \E i, j \in 1..Len(calls) :
                 /\ i < j
                 /\ calls[i] = Call("enforceError", "failed")
                 /\ calls[j].op = "resolveAscApiKeySource"

C16_Witness ==
  /\ cmd = "submit" /\ ~NoPassword /\ ctx.nonInteractive /\ KeyFieldsSet = 2
  /\ options # Null
  /\ "appSpecificPasswordSource" \in DOMAIN options

\* the selector asks for this platform
Requested(p) ==
  \/ platform = "all"
  \/ platform = "android" /\ p = "ANDROID"
  \/ platform = "ios" /\ p = "IOS"

\* how many existence checks were issued for this platform
ChecksFor(p) ==
  Len(SelectSeq(ArgsOf("getPendingBuildIdAsync", calls), LAMBDA a : a = p))

\* the guard has issued its existence checks
ChecksIssued ==
  pc \in {"guard:checks", "guard:fetches"} \/ accountHasPendingBuilds # Undefined

\* C17: for a non-privileged user the guard issues one existence check for
\* each platform of the selector and none for another platform; a pending
\* build on a platform outside the selector never makes the guard block.
C17_ChecksOnlyRequestedPlatforms ==
  (cmd = "build" /\ ~user.isExpoAdmin)
    => /\ \A p \in AppPlatform :
            /\ ChecksFor(p) <= 1
            /\ ChecksFor(p) = 1 => Requested(p)
            /\ (ChecksIssued /\ Requested(p)) => ChecksFor(p) = 1
       /\ (platform # Undefined
           /\ \A p \in AppPlatform : Requested(p) => world.pending[p] = "null")
            => /\ accountHasPendingBuilds # "true"
               /\ ~Called("byIdAsync")
               /\ pc # "guard:fetches"

C17_Witness ==
  /\ cmd = "build" /\ ~user.isExpoAdmin /\ platform = "android"
  /\ world.pending["ANDROID"] = "null" /\ world.pending["IOS"] # "null"
  /\ accountHasPendingBuilds = "false"
  /\ Called("buildAsync")

\* the guard told the user that builds are pending
PendingReported ==
  \E i \in 1..Len(logs) : logs[i].msg = <<"Your other builds are still pending">>

\* C18: for a non-privileged user no summary fetch is issued, no pending
\* build is reported and the guard returns nothing before every existence
\* check has settled; what it fetches and returns is fixed by what the
\* service holds, whatever the order in which the checks settled.
C18_AllCompleteBarrier ==
  (cmd = "build" /\ ~user.isExpoAdmin)
    => /\ (Called("byIdAsync") \/ PendingReported \/ Reported # <<>>
           \/ accountHasPendingBuilds # Undefined)
            => /\ Len(maybePendingBuilds) = Len(toAppPlatforms(platform))
               /\ AllFulfilled(maybePendingBuilds)
       /\ Called("byIdAsync") => ArgsOf("byIdAsync", calls) = ExpectedPending
       /\ accountHasPendingBuilds # Undefined =>
            ((accountHasPendingBuilds = "true") <=>
               (\E p \in AppPlatform : Requested(p) /\ world.pending[p] # "null"))

C18_Witness ==
  /\ cmd = "build" /\ ~user.isExpoAdmin /\ platform = "all"
  /\ pc = "guard:checks"
  /\ maybePendingBuilds = <<Inflight, Fulfilled("build-ios")>>
  /\ ~Called("byIdAsync") /\ ~PendingReported

\* C19: resolveAscAppIdentifierAsync asks App Store Connect iff the profile
\* has no ascAppId and the run is interactive; with ascAppId set it succeeds
\* with that value, without it in non-interactive mode it returns a failed
\* Result, and a failed lookup is a failed Result that the failure check
\* reports, never a default identifier.
C19_AscAppIdentifier ==
  cmd = "submit"
    => /\ Called("ensureAppStoreConnectAppExistsAsync") <=>
            (ascAppIdentifier # Null /\ ctx.profile.ascAppId = Undefined
             /\ ~ctx.nonInteractive)
       /\ (ascAppIdentifier # Null /\ ctx.profile.ascAppId # Undefined) =>
            ascAppIdentifier = [ok |-> TRUE, value |-> ctx.profile.ascAppId]
       /\ (ascAppIdentifier # Null /\ ctx.profile.ascAppId = Undefined
           /\ ctx.nonInteractive) =>
            ascAppIdentifier =
              [ok |-> FALSE, reason |-> [name |-> "Error", message |-> AscAppIdMessage]]
       /\ (ascAppIdentifier # Null /\ ctx.profile.ascAppId = Undefined
           /\ ~ctx.nonInteractive) =>
            IF ascAppIdentifier.ok
            THEN ascAppIdentifier.value = "remote-app-id"
            ELSE /\ ascAppIdentifier.reason.message \in AppProduceErrors
                 /\ options = Null
                 /\ pc \in {"resolve:build", "threw"}
                 /\ pc = "threw" =>
                      /\ Len(ErrorLogs) = 1
                      /\ \E k \in 1..Len(Lines(ErrorLogs[1].msg)) :
                           Lines(ErrorLogs[1].msg)[k] = ascAppIdentifier.reason.message

C19_Witness ==
  /\ cmd = "submit" /\ pc = "threw" /\ ~ctx.nonInteractive
  /\ Called("ensureAppStoreConnectAppExistsAsync")
  /\ ~ascAppIdentifier.ok /\ ~archiveSource.ok
  /\ Len(Lines(ErrorLogs[1].msg)) = 2

====
